---- MODULE Spec2Model ----
(***************************************************************************)
(* A model of src/report.py: the Report class that grows one HTML file by  *)
(* replacing an insertion marker, and the fragment builders around it.     *)
(*                                                                         *)
(* Text is a sequence of tokens.  A token is one piece of text that the    *)
(* code never splits: the two halves of the marker, "<content>" and        *)
(* "</content>", a run of literal template text between two interpolation  *)
(* points (named by what it holds), or a unit of caller-supplied text.     *)
(* "w" is a run of whitespace (the newline and indentation the f-string    *)
(* templates put around an interpolated value).  textwrap.dedent only      *)
(* changes the width of such runs, which a "w" token does not record.      *)
(***************************************************************************)
EXTENDS Integers, Sequences, FiniteSets, TLC

VARIABLES
    file,      \* the text stored at self.filepath (<<>> : no file, or an empty one)
    obj,       \* TRUE iff a constructed Report instance is live
    template,  \* self.template of the live instance
    ret,       \* the last call: its operation, arguments, exception, return value
    hist,      \* history: the fragments handed to the add_content calls that opened
               \* the file for writing, since the skeleton now in the file was written
    built,     \* history: the skeleton in the file comes from a constructor call
               \* that returned normally, and every write to the file since has
               \* completed
    env,       \* "may_fail": the environment may still make one call fail (a fetch
               \* or a file operation that raises, a display that is undefined);
               \* "reliable": it makes none fail
    found,     \* history: what the last call, if it was a constructor call that
               \* opened the path for writing, found there ("nothing" otherwise)
    inp,       \* the table and the arguments the grid builders are called with
    figs,      \* the charts the last grid builder or subplot call built, and how
               \* it laid them out
    procs      \* the overlapping add_content calls: where each is, the text it
               \* read, the fragment it appends

vars == <<file, obj, template, ret, hist, built, env, found, inp, figs, procs>>

-----------------------------------------------------------------------------
(* Bounds of the model *)

\* appends after the banner that one document receives
MaxAppends == 2
\* tokens one flush of the write buffer lands in the file (WriteLands)
ChunkLen == 8
\* appends after the banner that a fragment builder makes (SpecApi, SpecGrid)
MaxBuilds == 1
\* the largest max_plots, max_categories and columns_per_row a grid builder is
\* called with
MaxPlots == 2
MaxCategories == 3
MaxPerRow == 2
\* add_content calls one caller makes (SpecOverlap)
MaxCalls == 1

(* Constants of the program *)

\* the section levels add_section accepts (line 144)
MinLevel == 1
MaxLevel == 5
\* the default of add_dataframe's max_height (line 269)
DefaultMaxHeight == 500

-----------------------------------------------------------------------------
(* Text *)

\* the insertion marker "<content></content>"
Marker == <<"<content>", "</content>">>

\* old occurs in s at index i
MatchAt(s, i, old) ==
    /\ i + Len(old) - 1 <= Len(s)
    /\ SubSeq(s, i, i + Len(old) - 1) = old

RECURSIVE ReplaceFrom(_, _, _, _)
ReplaceFrom(s, i, old, new) ==
    IF i > Len(s) THEN <<>>
    ELSE IF MatchAt(s, i, old)
         THEN new \o ReplaceFrom(s, i + Len(old), old, new)
         ELSE <<s[i]>> \o ReplaceFrom(s, i + 1, old, new)

\* a replacement of the first occurrence only
StrReplaceFirst(s, old, new) ==
    IF \E i \in 1..Len(s) : MatchAt(s, i, old)
    THEN LET k == CHOOSE i \in 1..Len(s) :
                     MatchAt(s, i, old) /\ \A j \in 1..(i - 1) : ~MatchAt(s, j, old)
         IN  SubSeq(s, 1, k - 1) \o new \o SubSeq(s, k + Len(old), Len(s))
    ELSE s

\* str.replace(old, new): every non-overlapping occurrence, left to right
StrReplace(s, old, new) == ReplaceFrom(s, 1, old, new)

RECURSIVE CountFrom(_, _, _)
CountFrom(s, i, old) ==
    IF i > Len(s) THEN 0
    ELSE IF MatchAt(s, i, old)
         THEN 1 + CountFrom(s, i + Len(old), old)
         ELSE CountFrom(s, i + 1, old)

\* str.count(old)
StrCount(s, old) == CountFrom(s, 1, old)

MarkerCount(s) == StrCount(s, Marker)

\* the index of the first occurrence of old in s at or after i, 0 if none (str.find)
RECURSIVE FindFrom(_, _, _)
FindFrom(s, i, old) ==
    IF i + Len(old) - 1 > Len(s) THEN 0
    ELSE IF MatchAt(s, i, old) THEN i
    ELSE FindFrom(s, i + 1, old)

\* str.strip(): without the leading and trailing whitespace
RECURSIVE LStrip(_)
LStrip(s) == IF s # <<>> /\ Head(s) = "w" THEN LStrip(Tail(s)) ELSE s
RECURSIVE RStrip(_)
RStrip(s) ==
    IF s # <<>> /\ s[Len(s)] = "w" THEN RStrip(SubSeq(s, 1, Len(s) - 1)) ELSE s
Strip(s) == LStrip(RStrip(s))

\* the caller-supplied texts the model draws from: two plain texts, the marker
\* itself, and text that holds the marker
TextA == <<"A">>
TextB == <<"B">>
TextAM == <<"A">> \o Marker
Texts == {TextA, TextB, Marker, TextAM}

-----------------------------------------------------------------------------
(* The file *)

\* what a failed write leaves of text s in the file opened with "w" (truncated):
\* nothing, or the whole chunks flushed before the failure
WriteLands(s) ==
    {SubSeq(s, 1, k * ChunkLen) : k \in {j \in 0..Len(s) : j * ChunkLen < Len(s)}}

\* a call as ret records it: the operation, its arguments, the exception raised
\* ("none": returned normally), the step that raised it, and the text returned
\* (<<>>: None)
Call(op, args, err, at, html) ==
    [op |-> op, args |-> args, err |-> err, at |-> at, html |-> html]

NoCall == Call("none", <<>>, "none", "", <<>>)

\* a substitute that puts the fresh marker before the fragment
WrappedMarkerFirst(content) == <<"w">> \o Marker \o <<"w">> \o content \o <<"w">>

\* the text add_content substitutes for the marker (lines 119-122)
Wrapped(content) == <<"w">> \o content \o <<"w">> \o Marker \o <<"w">>

\* the text add_content computes from the file's text (lines 119-125)
Spliced(doc, content) == StrReplace(doc, Marker, Wrapped(content))

\* The outcomes of add_content(content) on a file holding doc: the file afterwards,
\* the exception raised and the step that raised it.  Where the environment may
\* fail: open(.., "r") and read() may raise; open(.., "w") may raise before it
\* truncates; once the file is truncated, write() may raise with only part of the
\* text in the file.
AddContentOutcomes(doc, content, may_fail) ==
    {[file |-> Spliced(doc, content), err |-> "none", at |-> ""]}
    \cup IF may_fail
         THEN {[file |-> doc, err |-> "OSError", at |-> "read"],
               [file |-> doc, err |-> "OSError", at |-> "open"]}
              \cup {[file |-> p, err |-> "OSError", at |-> "write"] :
                       p \in WriteLands(Spliced(doc, content))}
         ELSE {}

\* the file was opened for writing
Wrote(o) == o.err = "none" \/ o.at = "write"

-----------------------------------------------------------------------------
(* Report.__init__ *)

\* the template's text before the marker of the body container (lines 89-92), and
\* its text after it (lines 94-96)
BodyOpen == "</style></head><body><div container>"
BodyClose == "</div></body><script>"

\* self.template (lines 79-100): the skeleton, with author, title and the two
\* fetched texts interpolated
Template(title, author, css_content, js_content) ==
    <<"<!DOCTYPE html><html><head><meta author=">> \o author
    \o <<"><title>">> \o title
    \o <<"</title><style>">> \o css_content
    \o <<BodyOpen>> \o Marker
    \o <<BodyClose>> \o js_content
    \o <<"</script></html>">>

\* _show_report_info (lines 249-262): the metadata banner; "NOW" is the formatted
\* clock reading
ShowReportInfo(title, author, data_source, objective) ==
    <<"<div report-header><title>">> \o title
    \o <<"<Date>", "NOW", "<Data>">> \o data_source
    \o <<"<Author>">> \o author
    \o <<"<Goal>">> \o objective
    \o <<"</div header>">>

\* The outcomes of Report(title, author, data_source, objective) on a path whose
\* file holds old, given the two fetched texts: requests.get may raise (lines
\* 76-77); open(.., "w") may raise; write() may raise after the truncation;
\* display(HTML(html)) raises NameError where neither name is defined (line 263,
\* no import in the module); then add_content(banner) runs (line 107).
\* ConstructOutcomes with the skeleton written after the text the path holds
ConstructKeepingOld(old, title, author, data_source, objective, css, js, may_fail) ==
    {[file |-> old \o Spliced(Template(title, author, css, js),
                              ShowReportInfo(title, author, data_source, objective)),
      err |-> "none", at |-> ""]}

ConstructOutcomes(old, title, author, data_source, objective, css, js, may_fail) ==
    LET tpl == Template(title, author, css, js)
        banner == ShowReportInfo(title, author, data_source, objective)
    IN  {[file |-> o.file, err |-> o.err,
          at |-> IF o.err = "none" THEN "" ELSE "append"] :
            o \in AddContentOutcomes(tpl, banner, may_fail)}
        \cup IF may_fail
             THEN {[file |-> old, err |-> "ConnectionError", at |-> "fetch"],
                   [file |-> old, err |-> "OSError", at |-> "open"],
                   [file |-> tpl, err |-> "NameError", at |-> "banner"]}
                  \cup {[file |-> p, err |-> "OSError", at |-> "write"] :
                           p \in WriteLands(tpl)}
             ELSE {}

\* the arguments and fetched texts the model constructs reports with
PlainInput ==
    [title |-> <<"T">>, author |-> <<"X">>, data_source |-> <<"D">>,
     objective |-> <<"G">>, css |-> <<"css">>, js |-> <<"js">>]
ConstructInputs ==
    {PlainInput,
     [PlainInput EXCEPT !.title = Marker],
     [PlainInput EXCEPT !.data_source = Marker],
     [PlainInput EXCEPT !.css = <<"css">> \o Marker]}

\* the environment makes at most one call of a behaviour fail
MayFail == env = "may_fail"
Faulted(o) == env' = IF o.err = "none" THEN env ELSE "reliable"

\* what open(self.filepath, "w") (line 102) finds at the path: nothing, a report
\* with appended fragments, or other text
Found ==
    IF file = <<>> THEN "nothing"
    ELSE IF built /\ Len(hist) > 1 THEN "report"
    ELSE "text"

Construct(in) ==
    \E o \in ConstructOutcomes(file, in.title, in.author, in.data_source,
                               in.objective, in.css, in.js, MayFail) :
        /\ Faulted(o)
        /\ file' = o.file
        /\ found' = IF o.at \in {"fetch", "open"} THEN "nothing" ELSE Found
        /\ UNCHANGED <<inp, figs, procs>>
        /\ ret' = Call("__init__", <<>>, o.err, o.at, <<>>)
        /\ IF o.err = "none"
           THEN /\ obj' = TRUE
                /\ template' = Template(in.title, in.author, in.css, in.js)
                /\ hist' = <<ShowReportInfo(in.title, in.author, in.data_source,
                                            in.objective)>>
                /\ built' = TRUE
           ELSE /\ UNCHANGED <<obj, template>>
                /\ IF o.at \in {"fetch", "open"}
                   THEN UNCHANGED <<hist, built>>
                   ELSE hist' = <<>> /\ built' = FALSE

-----------------------------------------------------------------------------
(* Report.add_content *)

\* a call of add_content(content), made directly or by a builder: what it does to
\* the file and to the history, given its outcome o
Appended(o, content) ==
    /\ file' = o.file
    /\ hist' = IF Wrote(o) THEN Append(hist, content) ELSE hist
    /\ built' = (built /\ o.at # "write")
    /\ found' = "nothing"
    /\ UNCHANGED <<obj, template, inp, procs>>

\* a call that reaches add_content is made while the document has room
CanAppend == obj /\ Len(hist) <= MaxAppends

AddContent(content) ==
    /\ CanAppend
    /\ UNCHANGED figs
    /\ \E o \in AddContentOutcomes(file, content, MayFail) :
        /\ Faulted(o)
        /\ Appended(o, content)
        /\ ret' = Call("add_content", <<content>>, o.err, o.at, <<>>)

-----------------------------------------------------------------------------
(* The fragment builders *)

\* a builder runs as the first MaxBuilds appends after the banner
CanBuild == Len(hist) <= MaxBuilds

\* a call that changes nothing but ret
Unchanged ==
    /\ found' = "nothing"
    /\ UNCHANGED <<file, obj, template, hist, built, env, inp, procs>>

\* Deliver with the flag tested too late: the fragment is handed to add_content
\* whatever return_html says
DeliverAfterAppend(op, args, full_html, return_html) ==
    /\ CanBuild
    /\ \E o \in AddContentOutcomes(file, full_html, MayFail) :
         /\ Faulted(o)
         /\ Appended(o, full_html)
         /\ ret' = Call(op, args, o.err, o.at,
                        IF return_html /\ o.err = "none" THEN full_html ELSE <<>>)

\* the end of add_section, add_dataframe and add_plotly_figure (lines 155-158,
\* 330-333, 382-385): return the fragment, or hand it to add_content and return
\* None
Deliver(op, args, full_html, return_html) ==
    IF return_html
    THEN /\ ret' = Call(op, args, "none", "", full_html)
         /\ Unchanged
    ELSE /\ CanBuild
         /\ \E o \in AddContentOutcomes(file, full_html, MayFail) :
              /\ Faulted(o)
              /\ Appended(o, full_html)
              /\ ret' = Call(op, args, o.err, o.at, <<>>)

\* a call that raises before it reaches the file
Raise(op, args, err, at) ==
    /\ ret' = Call(op, args, err, at, <<>>)
    /\ Unchanged

\* str(n) of an integer, as an f-string formats it
Digit(n) == <<"0", "1", "2", "3", "4", "5", "6", "7", "8", "9">>[n + 1]
RECURSIVE NatText(_)
NatText(n) == IF n < 10 THEN <<Digit(n)>> ELSE NatText(n \div 10) \o <<Digit(n % 10)>>
IntText(n) == IF n < 0 THEN <<"-">> \o NatText(0 - n) ELSE NatText(n)

(* add_section *)

\* LevelOk without its lower bound
LevelOkNoLowerBound(level) == level <= MaxLevel

\* the assertion of line 144
LevelOk(level) == MinLevel <= level /\ level <= MaxLevel

\* the section fragment (lines 145-153)
SectionHtml(title, level, icon) ==
    <<"w", "<div report-section level-">> \o IntText(level)
    \o <<"><span icon>">> \o icon
    \o <<"</span><span title>">> \o title
    \o <<"</span></div section>", "w">>

AddSection(title, level, icon, return_html) ==
    /\ obj
    /\ UNCHANGED figs
    /\ LET args == <<title, level, icon, return_html>>
       IN  IF ~LevelOk(level)
           THEN Raise("add_section", args, "AssertionError", "assert")
           ELSE Deliver("add_section", args, SectionHtml(title, level, icon),
                        return_html)

(* add_row *)

\* the classes argument: None, one string, or a list of strings
NoClasses == [kind |-> "None", list |-> <<>>]
StrClasses(c) == [kind |-> "str", list |-> <<c>>]
ListClasses(l) == [kind |-> "list", list |-> l]

\* "not classes" (line 173): None, the empty string and the empty list are falsy
Falsy(classes) ==
    \/ classes.kind = "None"
    \/ classes.kind = "str" /\ classes.list[1] = ""
    \/ classes.kind = "list" /\ classes.list = <<>>

DefaultRowClass == "col-xl-6 col-lg-6 col-md-12 col-sm col-xs"

\* [c] * n
Repeat(c, n) == [i \in 1..n |-> c]

\* lines 173-180: the class list the row is built with; Mismatch: the ValueError
RowMismatch(contents, classes) ==
    /\ ~Falsy(classes)
    /\ classes.kind # "str"
    /\ Len(contents) # Len(classes.list)

RowClasses(contents, classes) ==
    IF Falsy(classes) THEN Repeat(DefaultRowClass, Len(contents))
    ELSE IF classes.kind = "str" THEN Repeat(classes.list[1], Len(contents))
    ELSE classes.list

Min(a, b) == IF a < b THEN a ELSE b

\* lines 182-188: one column container per pair of zip(contents, classes)
RECURSIVE RowColumns(_, _, _)
RowColumns(contents, class_names, i) ==
    IF i > Min(Len(contents), Len(class_names)) THEN <<>>
    ELSE <<"w", "<div class=", class_names[i], ">">> \o contents[i]
         \o <<"</div col>", "w">> \o RowColumns(contents, class_names, i + 1)

\* the row fragment (lines 182-194)
RowHtml(contents, class_names) ==
    <<"w", "<div row>">> \o RowColumns(contents, class_names, 1)
    \o <<"</div row>", "w">>

AddRow(contents, classes) ==
    /\ obj
    /\ UNCHANGED figs
    /\ LET args == <<contents, classes>>
       IN  IF RowMismatch(contents, classes)
           THEN Raise("add_row", args, "ValueError", "classes")
           ELSE Deliver("add_row", args,
                        RowHtml(contents, RowClasses(contents, classes)), FALSE)

(* add_column *)

\* the column fragment (lines 215-230)
ColumnHtml(content, card) ==
    LET inner == IF card
                 THEN <<"w", "<div card><div overflow>">> \o content
                      \o <<"</div></div card>", "w">>
                 ELSE content
    IN  <<"w", "<div row><div col>">> \o inner \o <<"</div></div row>", "w">>

AddColumn(content, card) ==
    /\ obj
    /\ UNCHANGED figs
    /\ Deliver("add_column", <<content, card>>, ColumnHtml(content, card), FALSE)

(* add_dataframe, add_plotly_figure *)

\* the objects handed to the two builders: a pandas DataFrame and a Plotly figure,
\* each with the text its to_html returns
TheFrame == [type |-> "DataFrame", html |-> <<"<table>", "cell", "</table>">>]
TheFigure == [type |-> "Figure", html |-> <<"<plotly>">>]
Objects == {TheFrame, TheFigure}

\* lines 293-296: a title that is None or empty gives no header
TitleHtml(title) ==
    IF title = <<>> THEN <<>> ELSE <<"<div card-header>">> \o title \o <<"</div>">>

\* the table fragment (lines 290-328); replace('\n', '') leaves the indentation,
\* strip() drops the whitespace at both ends
DataframeHtml(df, title, max_height, add_row) ==
    LET card == <<"<div card>", "w">> \o TitleHtml(title)
                \o <<"w", "<div overflow max-height:">> \o IntText(max_height)
                \o <<"px>">> \o df.html
                \o <<"</div><div card-description/></div card>">>
    IN  Strip(IF add_row
              THEN <<"w", "<div row><div col>">> \o card \o <<"</div></div row>", "w">>
              ELSE <<"w">> \o card \o <<"w">>)

\* IsDataFrame accepting every object
IsAnyObject(df) == df.type \in {"DataFrame", "Figure"}

\* isinstance(df, pd.DataFrame) (line 286)
IsDataFrame(df) == df.type = "DataFrame"

AddDataframe(df, title, max_height, return_html, add_row) ==
    /\ obj
    /\ UNCHANGED figs
    /\ LET args == <<df, title, max_height, return_html, add_row>>
       IN  IF ~IsDataFrame(df)
           THEN Raise("add_dataframe", args, "TypeError", "isinstance")
           ELSE Deliver("add_dataframe", args,
                        DataframeHtml(df, title, max_height, add_row), return_html)

\* the figure fragment (lines 359-380)
FigureHtml(fig, add_row) ==
    LET card == <<"<div card>">> \o fig.html
                \o <<"<div card-description/></div card>">>
    IN  IF add_row
        THEN <<"w", "<div row><div col>">> \o card \o <<"</div></div row>", "w">>
        ELSE <<"w">> \o card \o <<"w">>

\* isinstance(fig, PlotlyFigure) (line 352)
IsPlotlyFigure(fig) == fig.type = "Figure"

AddPlotlyFigure(fig, return_html, add_row) ==
    /\ obj
    /\ UNCHANGED figs
    /\ LET args == <<fig, return_html, add_row>>
       IN  IF ~IsPlotlyFigure(fig)
           THEN Raise("add_plotly_figure", args, "TypeError", "isinstance")
           ELSE Deliver("add_plotly_figure", args, FigureHtml(fig, add_row),
                        return_html)

-----------------------------------------------------------------------------
(* The grid builders: the columns they select *)

\* A DataFrame as the grid builders use it: its columns in table order.  A
\* column has a name, a dtype kind ("cat": object or category, "num": number)
\* and its distinct values in order of first appearance, each with the number of
\* rows that hold it.
Col(name, kind, values) == [name |-> name, kind |-> kind, values |-> values]
Val(label, count) == [label |-> label, count |-> count]

\* max_plots: None, or an integer
NoMax == [given |-> FALSE, n |-> 0]
MaxOf(n) == [given |-> TRUE, n |-> n]

\* "if max_plots:" (lines 426, 518, 609, 678, 747, 813, 884, 951, 1016): None
\* and 0 are falsy
Truthy(max_plots) == max_plots.given /\ max_plots.n # 0

\* "if include_cols:", "elif exclude_cols:": None and the empty list are falsy,
\* and both are the empty sequence here
Given(cols) == cols # <<>>

\* col in cols
In(col, cols) == \E i \in 1..Len(cols) : cols[i] = col

\* seq[:n]
Slice(seq, n) ==
    IF n >= 0 THEN SubSeq(seq, 1, Min(n, Len(seq)))
    ELSE SubSeq(seq, 1, IF Len(seq) + n > 0 THEN Len(seq) + n ELSE 0)

\* [col for col in cols if col in others], [col for col in cols if col not in
\* others]
RECURSIVE Keep(_, _, _)
Keep(cols, others, wanted) ==
    IF cols = <<>> THEN <<>>
    ELSE (IF In(Head(cols), others) = wanted THEN <<Head(cols)>> ELSE <<>>)
         \o Keep(Tail(cols), others, wanted)

\* df.select_dtypes(include=...).columns: the names of the columns of one kind,
\* in table order
RECURSIVE KindColumns(_, _)
KindColumns(df, kind) ==
    IF df = <<>> THEN <<>>
    ELSE (IF Head(df).kind = kind THEN <<Head(df).name>> ELSE <<>>)
         \o KindColumns(Tail(df), kind)

\* PlotlySelect with the exclusion applied before the inclusion is looked at
PlotlySelectExcludeFirst(df, kind, include_cols, exclude_cols, max_plots) ==
    LET cols == KindColumns(df, kind)
        picked == IF Given(exclude_cols) THEN Keep(cols, exclude_cols, FALSE)
                  ELSE IF Given(include_cols) THEN include_cols
                  ELSE cols
    IN  IF Truthy(max_plots) THEN Slice(picked, max_plots.n) ELSE picked

\* countplot, donut, histogram, box, violin (lines 420-427, 512-519, 603-610,
\* 672-679, 741-748): the include list replaces the columns of the kind
PlotlySelect(df, kind, include_cols, exclude_cols, max_plots) ==
    LET cols == KindColumns(df, kind)
        picked == IF Given(include_cols) THEN include_cols
                  ELSE IF Given(exclude_cols) THEN Keep(cols, exclude_cols, FALSE)
                  ELSE cols
    IN  IF Truthy(max_plots) THEN Slice(picked, max_plots.n) ELSE picked

\* pairplot (lines 801-805): the include list filters the numeric columns; no
\* max_plots on the columns
PairSelect(df, include_cols, exclude_cols) ==
    LET cols == KindColumns(df, "num")
    IN  IF Given(include_cols) THEN Keep(cols, include_cols, TRUE)
        ELSE IF Given(exclude_cols) THEN Keep(cols, exclude_cols, FALSE)
        ELSE cols

\* histoplot, boxplot, densityplot (lines 878-885, 945-952, 1010-1017)
AltairSelect(df, include_cols, exclude_cols, max_plots) ==
    LET picked == PairSelect(df, include_cols, exclude_cols)
    IN  IF Truthy(max_plots) THEN Slice(picked, max_plots.n) ELSE picked

-----------------------------------------------------------------------------
(* The grid builders: the charts they build *)

DefaultMaxCategories == 20

\* df[col]
ColumnOf(df, col) == CHOOSE c \in {df[i] : i \in 1..Len(df)} : c.name = col

\* value_counts(): the distinct values, the most frequent first, equal counts in
\* order of first appearance
RECURSIVE InsertByCount(_, _)
InsertByCount(sorted, v) ==
    IF sorted = <<>> THEN <<v>>
    ELSE IF Head(sorted).count >= v.count
         THEN <<Head(sorted)>> \o InsertByCount(Tail(sorted), v)
         ELSE <<v>> \o sorted
RECURSIVE ValueCounts(_)
ValueCounts(values) ==
    IF values = <<>> THEN <<>>
    ELSE InsertByCount(ValueCounts(SubSeq(values, 1, Len(values) - 1)),
                       values[Len(values)])

\* count_data['count'].sum()
RECURSIVE SumCounts(_)
SumCounts(rows) == IF rows = <<>> THEN 0 ELSE Head(rows).count + SumCounts(Tail(rows))

\* CountData with the percentages taken over all the rows of the column
CountDataOverAll(values, max_categories) ==
    LET counted == ValueCounts(values)
        kept == IF Len(counted) > max_categories
                THEN Slice(counted, max_categories) ELSE counted
        total_count == SumCounts(counted)
    IN  [i \in 1..Len(kept) |->
           [label |-> kept[i].label, count |-> kept[i].count,
            percentage |-> [num |-> kept[i].count * 100, den |-> total_count]]]

\* lines 430-441, 522-530: the frequency table of one column, cut to its first
\* max_categories rows, with each row's percentage; a percentage is the exact
\* quotient num / den
CountData(values, max_categories) ==
    LET counted == ValueCounts(values)
        kept == IF Len(counted) > max_categories
                THEN Slice(counted, max_categories) ELSE counted
        total_count == SumCounts(kept)
    IN  [i \in 1..Len(kept) |->
           [label |-> kept[i].label, count |-> kept[i].count,
            percentage |-> [num |-> kept[i].count * 100, den |-> total_count]]]

\* a chart: what it draws (kind), of which columns (x, y), from which rows
Chart(kind, x, y, data) == [kind |-> kind, x |-> x, y |-> y, data |-> data]

\* px.bar and px.pie of the frequency table of a column (lines 444, 533)
CountCharts(kind, df, cols, max_categories) ==
    [i \in 1..Len(cols) |->
       Chart(kind, cols[i], "",
             CountData(ColumnOf(df, cols[i]).values, max_categories))]

\* px.histogram, px.box, px.violin of a column (lines 614, 683, 752) and the
\* Altair charts of a column (lines 889, 956, 1021)
ColumnCharts(kind, cols) == [i \in 1..Len(cols) |-> Chart(kind, cols[i], "", <<>>)]

\* fig.to_html(...)
FigureToHtml(fig) == <<"<plotly>", fig.kind, fig.x, "</plotly>">>

\* the cards of a grid (lines 460-466, 551-557, 619-625, 688-694, 757-763)
RECURSIVE Cards(_, _)
Cards(charts, class_name) ==
    IF charts = <<>> THEN <<>>
    ELSE <<"w", "<div class=", class_name, ">", "w", "<div card>", "w">>
         \o FigureToHtml(Head(charts))
         \o <<"w", "</div card>", "w", "</div>", "w">>
         \o Cards(Tail(charts), class_name)

\* the grid fragment (lines 469-474, 560-565, 628-633, 697-702, 766-771)
GridHtml(title, contents) ==
    <<"w", "<div row>", "w">> \o TitleHtml(title) \o <<"w">> \o contents
    \o <<"w", "</div row>", "w">>

\* "if not class_name:" with class_name None (lines 410-411, 507-508, 594-595,
\* 663-664, 732-733)
WideClass == "col-xl-6 col-lg-6 col-md-6 col-sm-12 col-xs"
NarrowClass == "col-xl-3 col-lg-4 col-md-6 col-sm-6 col-xs"

\* no subplot grid: the figure was not made by make_subplots
NoGrid == [rows |-> 0, cols |-> 0, height |-> 0]

\* a grid builder or subplot function is the first call made on a report
Untouched == ret.op = "__init__"

\* the end of the five Plotly grid builders: self.add_content(full_html)
PlotlyGrid(op, title, class_name, charts) ==
    /\ obj
    /\ Untouched
    /\ figs' = [charts |-> charts, rows |-> <<>>, grid |-> NoGrid]
    /\ Deliver(op, <<>>, GridHtml(title, Cards(charts, class_name)), FALSE)

(* countplot, donut, histogram, box, violin *)

Countplot(df, title, include_cols, exclude_cols, max_plots, max_categories) ==
    LET cat_cols == PlotlySelect(df, "cat", include_cols, exclude_cols, max_plots)
    IN  PlotlyGrid("countplot", title, WideClass,
                   CountCharts("bar", df, cat_cols, max_categories))

Donut(df, title, include_cols, exclude_cols, max_plots, max_categories) ==
    LET cat_cols == PlotlySelect(df, "cat", include_cols, exclude_cols, max_plots)
    IN  PlotlyGrid("donut", title, WideClass,
                   CountCharts("pie", df, cat_cols, max_categories))

Histogram(df, title, include_cols, exclude_cols, max_plots) ==
    LET numeric_cols == PlotlySelect(df, "num", include_cols, exclude_cols, max_plots)
    IN  PlotlyGrid("histogram", title, NarrowClass,
                   ColumnCharts("histogram", numeric_cols))

Box(df, title, include_cols, exclude_cols, max_plots) ==
    LET numeric_cols == PlotlySelect(df, "num", include_cols, exclude_cols, max_plots)
    IN  PlotlyGrid("box", title, NarrowClass, ColumnCharts("box", numeric_cols))

Violin(df, title, include_cols, exclude_cols, max_plots) ==
    LET numeric_cols == PlotlySelect(df, "num", include_cols, exclude_cols, max_plots)
    IN  PlotlyGrid("violin", title, NarrowClass, ColumnCharts("violin", numeric_cols))

(* pairplot, histoplot, boxplot, densityplot *)

\* the pair list with the x-axis column as the outer loop
PairCombosXOuter(numeric_cols) ==
    LET n == Len(numeric_cols)
    IN  [k \in 1..(n * n) |->
           <<numeric_cols[((k - 1) % n) + 1], numeric_cols[((k - 1) \div n) + 1]>>]

\* lines 808-811: every numeric column against every numeric column, (y, x)
PairCombos(numeric_cols) ==
    LET n == Len(numeric_cols)
    IN  [k \in 1..(n * n) |->
           <<numeric_cols[((k - 1) \div n) + 1], numeric_cols[((k - 1) % n) + 1]>>]

\* lines 817-826: one scatter plot per pair
PairCharts(pair_combos) ==
    [i \in 1..Len(pair_combos) |->
       Chart("point", pair_combos[i][2], pair_combos[i][1], <<>>)]

\* a layout that keeps the full rows only
GridRowsFullOnly(charts, columns_per_row) ==
    [r \in 1..(Len(charts) \div columns_per_row) |->
       SubSeq(charts, (r - 1) * columns_per_row + 1, r * columns_per_row)]

\* charts[i:i+columns_per_row] for i in range(0, len(charts), columns_per_row)
\* (lines 829-832, 899-902, 964-967, 1033-1036), columns_per_row positive
GridRows(charts, columns_per_row) ==
    [r \in 1..((Len(charts) + columns_per_row - 1) \div columns_per_row) |->
       SubSeq(charts, (r - 1) * columns_per_row + 1,
              Min(r * columns_per_row, Len(charts)))]

\* final_plot.to_html(output_div="altair-" + a fresh uuid, ...): the title and
\* the rows of charts
RECURSIVE ChartsHtml(_)
ChartsHtml(charts) ==
    IF charts = <<>> THEN <<>>
    ELSE <<"<chart>", Head(charts).kind, Head(charts).x, Head(charts).y>>
         \o ChartsHtml(Tail(charts))
RECURSIVE RowsHtml(_)
RowsHtml(rows) ==
    IF rows = <<>> THEN <<>>
    ELSE <<"<hconcat>">> \o ChartsHtml(Head(rows)) \o RowsHtml(Tail(rows))
AltairHtml(title_text, rows) ==
    <<"<div id=altair-", "uuid4", ">", title_text>> \o RowsHtml(rows)

\* the end of the four Altair builders (lines 829-855, 899-923, 964-988,
\* 1033-1057): lay the charts out, return the HTML or show the plot
AltairGrid(op, title_text, charts, columns_per_row, return_html) ==
    LET rows == GridRows(charts, columns_per_row)
    IN  /\ obj
        /\ Untouched
        /\ figs' = [charts |-> charts, rows |-> rows, grid |-> NoGrid]
        /\ ret' = Call(op, <<columns_per_row, return_html>>, "none", "",
                       IF return_html THEN AltairHtml(title_text, rows) ELSE <<>>)
        /\ Unchanged

Pairplot(df, include_cols, exclude_cols, columns_per_row, max_plots, return_html) ==
    LET numeric_cols == PairSelect(df, include_cols, exclude_cols)
        pair_combos == IF Truthy(max_plots)
                       THEN Slice(PairCombos(numeric_cols), max_plots.n)
                       ELSE PairCombos(numeric_cols)
    IN  AltairGrid("pairplot", "Pairplot of Numerical Features",
                   PairCharts(pair_combos), columns_per_row, return_html)

Histoplot(df, include_cols, exclude_cols, columns_per_row, max_plots, return_html) ==
    LET numeric_cols == AltairSelect(df, include_cols, exclude_cols, max_plots)
    IN  AltairGrid("histoplot", "Histogram of Numerical Features",
                   ColumnCharts("bar", numeric_cols), columns_per_row, return_html)

Boxplot(df, include_cols, exclude_cols, columns_per_row, max_plots, return_html) ==
    LET numeric_cols == AltairSelect(df, include_cols, exclude_cols, max_plots)
    IN  AltairGrid("boxplot", "Boxplot of Numerical Features",
                   ColumnCharts("boxplot", numeric_cols), columns_per_row, return_html)

Densityplot(df, include_cols, exclude_cols, columns_per_row, max_plots, return_html) ==
    LET numeric_cols == AltairSelect(df, include_cols, exclude_cols, max_plots)
    IN  AltairGrid("densityplot", "Density Plot of Numerical Features",
                   ColumnCharts("area", numeric_cols), columns_per_row, return_html)

-----------------------------------------------------------------------------
(* histogram_subplot, violin_subplot *)

\* the i-th column placed as if i counted from 1
SubplotCellFromOne(i, cols) == <<((i + 1) \div cols) + 1, ((i + 1) % cols) + 1>>

\* int(np.ceil(len(numeric_cols) / max_cols_per_row)) (lines 1216, 1262)
SubplotRows(n, max_cols_per_row) == (n + max_cols_per_row - 1) \div max_cols_per_row

\* min(len(numeric_cols), max_cols_per_row) (lines 1217, 1263)
SubplotCols(n, max_cols_per_row) == Min(n, max_cols_per_row)

\* r = i // cols + 1, c = i % cols + 1 (lines 1227-1228, 1284-1285)
SubplotCell(i, cols) == <<(i \div cols) + 1, (i % cols) + 1>>

\* subplot_fig.add_trace(fig, row=r, col=c) for each numeric column in turn
\* (lines 1226-1235, 1283-1286)
SubplotTraces(kind, numeric_cols, cols) ==
    [k \in 1..Len(numeric_cols) |->
       [trace |-> IF kind = "histogram" THEN Chart(kind, numeric_cols[k], "", <<>>)
                  ELSE Chart(kind, "", numeric_cols[k], <<>>),
        row |-> SubplotCell(k - 1, cols)[1],
        col |-> SubplotCell(k - 1, cols)[2]]]

\* the two subplot functions of the module (lines 1215-1244, 1261-1298):
\* make_subplots refuses a grid without rows or columns with ValueError;
\* otherwise the figure is returned with one trace per numeric column
Subplot(op, kind, df, max_cols_per_row) ==
    LET numeric_cols == KindColumns(df, "num")
        rows == SubplotRows(Len(numeric_cols), max_cols_per_row)
        cols == SubplotCols(Len(numeric_cols), max_cols_per_row)
    IN  /\ Untouched
        /\ IF rows < 1 \/ cols < 1
           THEN /\ ret' = Call(op, <<max_cols_per_row>>, "ValueError",
                               "make_subplots", <<>>)
                /\ UNCHANGED figs
           ELSE /\ ret' = Call(op, <<max_cols_per_row>>, "none", "", <<>>)
                /\ figs' = [charts |-> SubplotTraces(kind, numeric_cols, cols),
                            rows |-> <<>>,
                            grid |-> [rows |-> rows, cols |-> cols,
                                      height |-> 300 * rows]]
        /\ Unchanged

HistogramSubplot(df, max_cols_per_row) ==
    Subplot("histogram_subplot", "histogram", df, max_cols_per_row)

ViolinSubplot(df, max_cols_per_row) ==
    Subplot("violin_subplot", "violin", df, max_cols_per_row)

-----------------------------------------------------------------------------
(* Overlapping add_content calls *)

\* the callers whose add_content calls overlap on one report
Writers == {"w1", "w2"}

\* a caller between two calls
Idle(calls) == [pc |-> "idle", text |-> <<>>, content |-> <<>>, calls |-> calls]

\* WriteFile writing back the text it read, without the fragment
WriteFileUnspliced(writer) ==
    LET me == procs[writer]
    IN  /\ me.pc = "opened"
        /\ file' = me.text
        /\ procs' = [procs EXCEPT ![writer].pc = "idle", ![writer].calls = @ + 1]
        /\ ret' = Call("add_content", <<me.content>>, "none", "", <<>>)
        /\ found' = "nothing"
        /\ UNCHANGED <<obj, template, hist, built, env, inp, figs>>

\* lines 116-117: a call of add_content(content) begins; it opens the file and
\* reads all of it
ReadFile(writer, content) ==
    /\ obj
    /\ procs[writer].pc = "idle"
    /\ procs[writer].calls < MaxCalls
    /\ procs' = [procs EXCEPT ![writer].pc = "read", ![writer].text = file,
                              ![writer].content = content]
    /\ UNCHANGED <<file, obj, template, ret, hist, built, env, found, inp, figs>>

\* line 127: open(self.filepath, "w") empties the file; from here on a write is
\* pending or may have been overwritten, which built does not vouch for
OpenForWrite(writer) ==
    /\ procs[writer].pc = "read"
    /\ file' = <<>>
    /\ hist' = Append(hist, procs[writer].content)
    /\ built' = FALSE
    /\ procs' = [procs EXCEPT ![writer].pc = "opened"]
    /\ UNCHANGED <<obj, template, ret, env, found, inp, figs>>

\* f.write(text) through a handle opened with "w" and positioned at 0, on a file
\* that holds old (what another handle wrote since this one's open emptied the
\* file): text, and what of old lies beyond its end
WriteAtStart(old, text) ==
    IF Len(text) >= Len(old) THEN text
    ELSE text \o SubSeq(old, Len(text) + 1, Len(old))

\* lines 119-125, 128: the text read, with the fragment spliced in, is written
\* and the call returns
WriteFile(writer) ==
    LET me == procs[writer]
    IN  /\ me.pc = "opened"
        /\ file' = WriteAtStart(file, Spliced(me.text, me.content))
        /\ procs' = [procs EXCEPT ![writer].pc = "idle", ![writer].calls = @ + 1]
        /\ ret' = Call("add_content", <<me.content>>, "none", "", <<>>)
        /\ found' = "nothing"
        /\ UNCHANGED <<obj, template, hist, built, env, inp, figs>>

-----------------------------------------------------------------------------
\* no grid builder is called, no add_content calls overlap
NoInput == <<>>
NoFigs == [charts |-> <<>>, rows |-> <<>>, grid |-> NoGrid]
NoProcs == <<>>

Init ==
    /\ file = <<>>
    /\ obj = FALSE
    /\ template = <<>>
    /\ ret = NoCall
    /\ hist = <<>>
    /\ built = FALSE
    /\ env = "may_fail"
    /\ found = "nothing"
    /\ inp = NoInput
    /\ figs = NoFigs
    /\ procs = NoProcs

Next ==
    \/ \E in \in ConstructInputs : Construct(in)
    \/ \E content \in Texts : AddContent(content)

Spec == Init /\ [][Next]_vars

\* The public operations of a report, under an environment that makes no call
\* fail.
InitApi ==
    /\ file = <<>>
    /\ obj = FALSE
    /\ template = <<>>
    /\ ret = NoCall
    /\ hist = <<>>
    /\ built = FALSE
    /\ env = "reliable"
    /\ found = "nothing"
    /\ inp = NoInput
    /\ figs = NoFigs
    /\ procs = NoProcs

LevelInputs == (MinLevel - 1)..(MaxLevel + 1)
RowContents == {<<TextA>>, <<TextA, TextB>>}
RowClassInputs ==
    {NoClasses, StrClasses(""), StrClasses("k"), ListClasses(<<>>),
     ListClasses(<<"c1">>), ListClasses(<<"c1", "c2">>)}
ApiInputs == {PlainInput, [PlainInput EXCEPT !.data_source = Marker]}

NextApi ==
    \/ \E in \in ApiInputs : Construct(in)
    \/ \E level \in LevelInputs, return_html \in BOOLEAN :
          AddSection(<<"Intro">>, level, <<"icon">>, return_html)
    \/ \E contents \in RowContents, classes \in RowClassInputs :
          AddRow(contents, classes)
    \/ \E card \in BOOLEAN : AddColumn(TextA, card)
    \/ \E df \in Objects, title \in {<<>>, TextA}, return_html, add_row \in BOOLEAN :
          AddDataframe(df, title, DefaultMaxHeight, return_html, add_row)
    \/ \E fig \in Objects, return_html, add_row \in BOOLEAN :
          AddPlotlyFigure(fig, return_html, add_row)

SpecApi == InitApi /\ [][NextApi]_vars

\* The grid builders and the subplot functions, each called with the table and
\* the arguments of inp on a report as its constructor leaves it, under an
\* environment that makes no call fail and supplies plotly.express as px.
MixedTable ==
    <<Col("c1", "cat", <<Val("C", 15), Val("A", 50), Val("D", 5), Val("B", 30)>>),
      Col("n1", "num", <<Val("1", 2), Val("2", 2), Val("3", 1)>>),
      Col("c2", "cat", <<Val("x", 1), Val("y", 3)>>),
      Col("n2", "num", <<Val("7", 4)>>)>>
NumTable == <<MixedTable[2], MixedTable[4]>>
WideTable ==
    MixedTable \o <<Col("n3", "num", <<Val("9", 1)>>),
                    Col("n4", "num", <<Val("4", 2), Val("5", 1)>>),
                    Col("n5", "num", <<Val("0", 3)>>)>>
CatTable == <<MixedTable[1], MixedTable[3]>>

IncludeLists ==
    {<<>>, <<"c1">>, <<"n1">>, <<"c2", "c1">>, <<"n2", "n1">>, <<"n1", "c1">>}
ExcludeLists == {<<>>, <<"c1">>, <<"n1">>, <<"c1", "c2">>, <<"n1", "n2">>}
MaxPlotsInputs == {NoMax} \cup {MaxOf(n) : n \in 0..MaxPlots}

BaseInput ==
    [df |-> MixedTable, title |-> TextA, include_cols |-> <<>>,
     exclude_cols |-> <<>>, max_plots |-> NoMax,
     max_categories |-> DefaultMaxCategories]
GridInputs ==
    {[BaseInput EXCEPT !.include_cols = i, !.exclude_cols = e, !.max_plots = m] :
        i \in IncludeLists, e \in ExcludeLists, m \in MaxPlotsInputs}
    \cup {[BaseInput EXCEPT !.include_cols = i, !.max_categories = n] :
             i \in {<<>>, <<"n1">>}, n \in 1..MaxCategories}
    \cup {[BaseInput EXCEPT !.df = d, !.title = t] :
             d \in {MixedTable, NumTable}, t \in {<<>>, TextA, Marker}}
    \cup {[BaseInput EXCEPT !.df = d, !.max_plots = m] :
             d \in {WideTable, CatTable}, m \in MaxPlotsInputs}

InitGrid ==
    /\ file = Spliced(Template(PlainInput.title, PlainInput.author, PlainInput.css,
                               PlainInput.js),
                      ShowReportInfo(PlainInput.title, PlainInput.author,
                                     PlainInput.data_source, PlainInput.objective))
    /\ obj = TRUE
    /\ template = Template(PlainInput.title, PlainInput.author, PlainInput.css,
                           PlainInput.js)
    /\ ret = Call("__init__", <<>>, "none", "", <<>>)
    /\ hist = <<ShowReportInfo(PlainInput.title, PlainInput.author,
                               PlainInput.data_source, PlainInput.objective)>>
    /\ built = TRUE
    /\ env = "reliable"
    /\ found = "nothing"
    /\ inp \in GridInputs
    /\ figs = NoFigs
    /\ procs = NoProcs

NextGrid ==
    \/ Countplot(inp.df, inp.title, inp.include_cols, inp.exclude_cols,
                 inp.max_plots, inp.max_categories)
    \/ Donut(inp.df, inp.title, inp.include_cols, inp.exclude_cols,
             inp.max_plots, inp.max_categories)
    \/ Histogram(inp.df, inp.title, inp.include_cols, inp.exclude_cols, inp.max_plots)
    \/ Box(inp.df, inp.title, inp.include_cols, inp.exclude_cols, inp.max_plots)
    \/ Violin(inp.df, inp.title, inp.include_cols, inp.exclude_cols, inp.max_plots)
    \/ \E columns_per_row \in 1..MaxPerRow, return_html \in BOOLEAN :
          Pairplot(inp.df, inp.include_cols, inp.exclude_cols, columns_per_row,
                   inp.max_plots, return_html)
    \/ \E columns_per_row \in 1..MaxPerRow, return_html \in BOOLEAN :
          Histoplot(inp.df, inp.include_cols, inp.exclude_cols, columns_per_row,
                    inp.max_plots, return_html)
    \/ \E columns_per_row \in 1..MaxPerRow, return_html \in BOOLEAN :
          Boxplot(inp.df, inp.include_cols, inp.exclude_cols, columns_per_row,
                  inp.max_plots, return_html)
    \/ \E columns_per_row \in 1..MaxPerRow, return_html \in BOOLEAN :
          Densityplot(inp.df, inp.include_cols, inp.exclude_cols, columns_per_row,
                      inp.max_plots, return_html)
    \/ \E max_cols_per_row \in 1..MaxPerRow :
          HistogramSubplot(inp.df, max_cols_per_row)
    \/ \E max_cols_per_row \in 1..MaxPerRow :
          ViolinSubplot(inp.df, max_cols_per_row)

SpecGrid == InitGrid /\ [][NextGrid]_vars

\* Two callers append to one report, as its constructor left it, with no
\* coordination; the environment makes no call fail.
InitOverlap ==
    /\ file = Spliced(Template(PlainInput.title, PlainInput.author, PlainInput.css,
                               PlainInput.js),
                      ShowReportInfo(PlainInput.title, PlainInput.author,
                                     PlainInput.data_source, PlainInput.objective))
    /\ obj = TRUE
    /\ template = Template(PlainInput.title, PlainInput.author, PlainInput.css,
                           PlainInput.js)
    /\ ret = Call("__init__", <<>>, "none", "", <<>>)
    /\ hist = <<ShowReportInfo(PlainInput.title, PlainInput.author,
                               PlainInput.data_source, PlainInput.objective)>>
    /\ built = TRUE
    /\ env = "reliable"
    /\ found = "nothing"
    /\ inp = NoInput
    /\ figs = NoFigs
    /\ procs = [writer \in Writers |-> Idle(0)]

NextOverlap ==
    \/ \E writer \in Writers, content \in {TextA, TextB} : ReadFile(writer, content)
    \/ \E writer \in Writers : OpenForWrite(writer)
    \/ \E writer \in Writers : WriteFile(writer)

SpecOverlap == InitOverlap /\ [][NextOverlap]_vars

-----------------------------------------------------------------------------
(* Properties *)

Last(q) == q[Len(q)]

\* the report in the file was constructed with these properties: its constructor
\* and every write since completed, and the skeleton with its banner held one
\* marker
FreshOneMarker ==
    /\ built
    /\ MarkerCount(Spliced(template, hist[1])) = 1

\* C1: starting from a freshly constructed report, after every successful
\* add_content call, whatever the fragment text, the file holds exactly one
\* insertion marker.
C1_MarkerInvariant == FreshOneMarker => MarkerCount(file) = 1

\* the position after the last of the fragments frags[k..], found one after the
\* other in doc from position pos on, none overlapping the one before; -1 if
\* some fragment is not found
RECURSIVE EmbedFrom(_, _, _, _)
EmbedFrom(doc, frags, k, pos) ==
    IF k > Len(frags) THEN pos
    ELSE LET at == FindFrom(doc, pos, frags[k])
         IN  IF at = 0 THEN -1
             ELSE EmbedFrom(doc, frags, k + 1, at + Len(frags[k]))

InOrder(doc, frags) ==
    LET end == EmbedFrom(doc, frags, 1, 1)
    IN  end # -1 /\ FindFrom(doc, end, Marker) # 0

\* C2: the fragments appended serially (the banner first) appear in the document
\* in the calling order, each after the one before, and the marker is after the
\* last.
C2_OrderPreserved == FreshOneMarker => InOrder(file, hist)

\* C3: add_content called on a document that holds zero markers or more than one
\* fails with MarkerInvariantViolation and does not write the file.
C3_AppendChecksMarker ==
    [][(ret'.op = "add_content" /\ MarkerCount(file) # 1)
         => (ret'.err = "MarkerInvariantViolation" /\ file' = file)]_vars

\* C4: an add_content call that fails, at whichever step, leaves the file with the
\* content it held before the call.
C4_AppendAllOrNothing ==
    [][(ret'.op = "add_content" /\ ret'.err # "none") => file' = file]_vars

\* C5: whatever the title, the author and the two fetched texts, the skeleton the
\* constructor writes holds exactly one marker, inside the body container.
C5_SkeletonOneMarker ==
    obj => /\ MarkerCount(template) = 1
           /\ LET k == FindFrom(template, 1, Marker)
              IN  /\ k > 1
                  /\ template[k - 1] = BodyOpen
                  /\ MatchAt(template, k + 2, <<BodyClose>>)

\* C6: after a successful construction and any later appends, the body of the
\* document opens with the metadata banner the constructor built.
C6_BannerFirst ==
    built =>
        LET b == FindFrom(file, 1, <<BodyOpen>>)
        IN  b # 0 /\ MatchAt(file, b + 1, <<"w">> \o hist[1])

\* the fragment a call of add_section, add_dataframe or add_plotly_figure builds
\* from its arguments, and its return_html argument
FragmentOf(r) ==
    CASE r.op = "add_section" -> SectionHtml(r.args[1], r.args[2], r.args[3])
      [] r.op = "add_dataframe" ->
            DataframeHtml(r.args[1], r.args[2], r.args[3], r.args[5])
      [] r.op = "add_plotly_figure" -> FigureHtml(r.args[1], r.args[3])
ReturnHtmlOf(r) ==
    CASE r.op = "add_section" -> r.args[4]
      [] r.op = "add_dataframe" -> r.args[4]
      [] r.op = "add_plotly_figure" -> r.args[2]

\* doc with frag and a fresh marker in the place of its one marker
AppendedOnce(doc, frag) ==
    LET k == FindFrom(doc, 1, Marker)
    IN  SubSeq(doc, 1, k - 1) \o <<"w">> \o frag \o <<"w">> \o Marker \o <<"w">>
        \o SubSeq(doc, k + 2, Len(doc))

\* C7: add_section, add_dataframe and add_plotly_figure with return_html=True
\* return the fragment and leave the file as it is; with return_html=False they
\* return None and make one add_content call with that fragment, which on a
\* one-marker document puts the fragment before the marker and changes nothing
\* else.
C7_ReturnHtmlFrame ==
    [][(/\ ret'.op \in {"add_section", "add_dataframe", "add_plotly_figure"}
        /\ ret'.err = "none")
         => IF ReturnHtmlOf(ret')
            THEN /\ file' = file
                 /\ hist' = hist
                 /\ ret'.html = FragmentOf(ret')
            ELSE /\ ret'.html = <<>>
                 /\ hist' = Append(hist, FragmentOf(ret'))
                 /\ Len(file') =
                      Len(file) + MarkerCount(file) * (Len(FragmentOf(ret')) + 3)
                 /\ MarkerCount(file) = 1
                      => file' = AppendedOnce(file, FragmentOf(ret'))]_vars

\* a figure returned as text, with a fragment already appended to the document
C7_Witness ==
    /\ ret.op = "add_plotly_figure"
    /\ ret.args[2]
    /\ ret.html = FigureHtml(TheFigure, ret.args[3])
    /\ Len(hist) = 2

\* the fragment is a section tagged with the level
Tagged(full_html, level) ==
    /\ Len(full_html) >= 3
    /\ full_html[2] = "<div report-section level-"
    /\ full_html[3] = <<"1", "2", "3", "4", "5">>[level]

\* C8: add_section raises for every level outside 1..5, with return_html true or
\* false, and leaves the file unchanged; every level in 1..5 is accepted and gives
\* a fragment tagged with that level.
C8_SectionLevels ==
    [][ret'.op = "add_section"
         => LET level == ret'.args[2]
            IN  IF level \in MinLevel..MaxLevel
                THEN /\ ret'.err = "none"
                     /\ Tagged(IF ret'.args[4] THEN ret'.html ELSE Last(hist'), level)
                ELSE /\ ret'.err = "AssertionError"
                     /\ file' = file
                     /\ hist' = hist]_vars

\* level 0 refused in append mode, on a document that holds a fragment
C8_Witness ==
    /\ ret.op = "add_section"
    /\ ret.args[2] = MinLevel - 1
    /\ ~ret.args[4]
    /\ ret.err = "AssertionError"
    /\ Len(hist) = 2

\* C9: add_row with classes a sequence whose length differs from the number of
\* fragments (the empty sequence included) raises the length-mismatch error and
\* appends nothing.
C9_RowLengthValidation ==
    [][(/\ ret'.op = "add_row"
        /\ ret'.args[2].kind = "list"
        /\ Len(ret'.args[2].list) # Len(ret'.args[1]))
         => (ret'.err = "ValueError" /\ file' = file)]_vars

\* the class C10 gives the i-th column container
ClaimedClass(classes, i) ==
    CASE classes.kind = "None" -> DefaultRowClass
      [] classes.kind = "str" -> classes.list[1]
      [] classes.kind = "list" -> classes.list[i]

\* C10: the row add_row appends holds one column container per fragment, in
\* order; the i-th wraps the i-th fragment and carries the default class when
\* classes is absent, the string when classes is one string, the i-th class when
\* classes is a sequence of equal length.
C10_RowClasses ==
    (/\ ret.op = "add_row"
     /\ ret.err = "none"
     /\ ret.args[2].kind = "list" => Len(ret.args[2].list) = Len(ret.args[1]))
      => Last(hist) = RowHtml(ret.args[1],
                              [i \in 1..Len(ret.args[1]) |->
                                 ClaimedClass(ret.args[2], i)])

\* the last call handed add_dataframe or add_plotly_figure an object of the wrong
\* type
WrongType(r) ==
    \/ r.op = "add_dataframe" /\ r.args[1].type # "DataFrame"
    \/ r.op = "add_plotly_figure" /\ r.args[1].type # "Figure"

\* C11: add_dataframe with an object that is not a DataFrame and
\* add_plotly_figure with an object that is not a Plotly figure raise TypeError
\* whatever return_html and add_row are, and the call leaves the file as it was.
C11_TypeCheckFirst ==
    [][WrongType(ret') => (/\ ret'.err = "TypeError"
                           /\ ret'.html = <<>>
                           /\ file' = file
                           /\ hist' = hist)]_vars

\* a figure handed to add_dataframe with return_html false and add_row true, on
\* a report that holds its banner
C11_Witness ==
    /\ ret.op = "add_dataframe"
    /\ ret.args[1] = TheFigure
    /\ ~ret.args[4]
    /\ ret.args[5]
    /\ ret.err = "TypeError"
    /\ Len(hist) >= 1
    /\ MarkerCount(file) = 1

-----------------------------------------------------------------------------
(* Properties of the grid builders (SpecGrid) *)

PlotlyOps == {"countplot", "donut", "histogram", "box", "violin"}
AltairOps == {"histoplot", "boxplot", "densityplot"}
GridOps == PlotlyOps \cup AltairOps \cup {"pairplot"}

\* the kind of column a builder is for
KindOf(op) == IF op \in {"countplot", "donut"} THEN "cat" ELSE "num"

\* the columns the charts of a call draw, in the order the charts were built
Xs(charts) == [i \in 1..Len(charts) |-> charts[i].x]

\* the charts builder op builds when called with the table and arguments in
ChartsOf(op, in) ==
    CASE op \in {"countplot", "donut"} ->
           CountCharts(IF op = "countplot" THEN "bar" ELSE "pie", in.df,
                       PlotlySelect(in.df, "cat", in.include_cols, in.exclude_cols,
                                    in.max_plots),
                       in.max_categories)
      [] op \in {"histogram", "box", "violin"} ->
           ColumnCharts(op, PlotlySelect(in.df, "num", in.include_cols,
                                        in.exclude_cols, in.max_plots))
      [] op = "pairplot" ->
           PairCharts(IF Truthy(in.max_plots)
                      THEN Slice(PairCombos(PairSelect(in.df, in.include_cols,
                                                       in.exclude_cols)),
                                 in.max_plots.n)
                      ELSE PairCombos(PairSelect(in.df, in.include_cols,
                                                 in.exclude_cols)))
      [] op \in AltairOps ->
           ColumnCharts(CASE op = "histoplot" -> "bar"
                          [] op = "boxplot" -> "boxplot"
                          [] op = "densityplot" -> "area",
                        AltairSelect(in.df, in.include_cols, in.exclude_cols,
                                     in.max_plots))

C13_KindFilter ==
    ret.op \in PlotlyOps
      => /\ \A i \in 1..Len(figs.charts) :
              In(figs.charts[i].x, KindColumns(inp.df, KindOf(ret.op)))
         /\ (/\ ~Given(inp.include_cols)
             /\ ~Given(inp.exclude_cols)
             /\ ~inp.max_plots.given)
              => Xs(figs.charts) = KindColumns(inp.df, KindOf(ret.op))

\* the builders that draw one chart per selected column
PerColumnOps == PlotlyOps \cup AltairOps

\* the number of chart cards in a grid fragment
CardCount(full_html) == StrCount(full_html, <<"<div card>">>)

\* C14: a per-column builder called with max_plots = N, N >= 0, draws exactly
\* the first min(N, k) of the k columns the same call draws without max_plots,
\* in the same order, and the grid fragment of a Plotly builder holds that many
\* cards.
C14_MaxPlotsTruncates ==
    (ret.op \in PerColumnOps /\ inp.max_plots.given /\ inp.max_plots.n >= 0)
      => LET all == Xs(ChartsOf(ret.op, [inp EXCEPT !.max_plots = NoMax]))
             first == SubSeq(all, 1, Min(inp.max_plots.n, Len(all)))
         IN  /\ Xs(figs.charts) = first
             /\ ret.op \in PlotlyOps => CardCount(Last(hist)) = Len(first)

\* C15: countplot, donut, histogram, box and violin called with a table and
\* arguments that select no column return without error and append exactly
\* one grid fragment, which holds the title banner and no card; the document
\* still has exactly one marker.
C15_EmptyGrid ==
    (ret.op \in PlotlyOps /\ figs.charts = <<>>)
      => /\ ret.err = "none"
         /\ Len(hist) = 2
         /\ Last(hist) = <<"w", "<div row>", "w">> \o TitleHtml(inp.title)
                          \o <<"w", "w", "</div row>", "w">>
         /\ CardCount(Last(hist)) = 0
         /\ file = AppendedOnce(Spliced(template, hist[1]), Last(hist))
         /\ MarkerCount(file) = 1

\* the sum of the numerators of the percentages of a frequency table
RECURSIVE SumNum(_)
SumNum(rows) ==
    IF rows = <<>> THEN 0 ELSE Head(rows).percentage.num + SumNum(Tail(rows))

\* rows are the min(N, k) most frequent of the k values of a column, the most
\* frequent first
TopOf(rows, values, N) ==
    /\ Len(rows) = Min(N, Len(values))
    /\ \A j \in 1..Len(rows) :
          /\ \E v \in 1..Len(values) :
                values[v] = Val(rows[j].label, rows[j].count)
          /\ \A l \in 1..Len(rows) :
                (j < l => rows[j].count >= rows[l].count)
                /\ (j # l => rows[j].label # rows[l].label)
    /\ \A v \in 1..Len(values) :
          (\A j \in 1..Len(rows) : rows[j].label # values[v].label)
            => \A j \in 1..Len(rows) : rows[j].count >= values[v].count

\* each percentage is the count times 100 over the sum of the counts of rows,
\* and the percentages sum to 100
PercentOfRetained(rows) ==
    /\ \A j \in 1..Len(rows) :
          /\ rows[j].percentage.den > 0
          /\ rows[j].percentage.num * SumCounts(rows)
               = rows[j].count * 100 * rows[j].percentage.den
          /\ rows[j].percentage.den = rows[1].percentage.den
    /\ rows # <<>> => SumNum(rows) = 100 * rows[1].percentage.den

\* C16: for every column countplot and donut chart and every max_categories
\* N >= 1, the chart's rows are the min(N, k) most frequent of the column's k
\* values in descending order of count, and each row's percentage is its count
\* times 100 over the sum of the retained counts, so the percentages sum to 100;
\* counts A:50, B:30, C:15, D:5 with N = 2 give A 62.5 and B 37.5.
C16_PercentOverRetained ==
    (ret.op \in {"countplot", "donut"} /\ inp.max_categories >= 1)
      => \A i \in 1..Len(figs.charts) :
            LET rows == figs.charts[i].data
                values == ColumnOf(inp.df, figs.charts[i].x).values
            IN  /\ TopOf(rows, values, inp.max_categories)
                /\ PercentOfRetained(rows)
                /\ (figs.charts[i].x = "c1" /\ inp.max_categories = 2)
                     => /\ <<rows[1].label, rows[2].label>> = <<"A", "B">>
                        /\ rows[1].percentage.num * 10 = 625 * rows[1].percentage.den
                        /\ rows[2].percentage.num * 10 = 375 * rows[2].percentage.den

\* countplot has charted the column with counts A:50, B:30, C:15, D:5 under
\* max_categories = 2: two rows, with percentages over 80
C16_Witness ==
    /\ ret.op = "countplot"
    /\ ret.err = "none"
    /\ inp.max_categories = 2
    /\ Len(figs.charts) >= 1
    /\ figs.charts[1].x = "c1"
    /\ Len(ColumnOf(inp.df, "c1").values) = 4
    /\ Len(figs.charts[1].data) = 2
    /\ figs.charts[1].data[1].percentage = [num |-> 5000, den |-> 80]

\* C17: no chart of pairplot plots a column against itself.
C17_NoSelfPair ==
    ret.op = "pairplot"
      => \A i \in 1..Len(figs.charts) : figs.charts[i].y # figs.charts[i].x

-----------------------------------------------------------------------------
(* Properties of overlapping calls (SpecOverlap) *)

\* the document as the constructor left it
Constructed == Spliced(template, hist[1])

\* both callers have returned from a call, no call is running, and both calls
\* read the document as the constructor left it: each read before the other
\* wrote
BothReadFirst ==
    \A writer \in Writers :
        /\ procs[writer].pc = "idle"
        /\ procs[writer].calls >= 1
        /\ procs[writer].text = Constructed

\* C18: two add_content calls that overlap, each reading the file before the
\* other writes it, both return without error, and the document then holds the
\* fragment of one of them only: it is the document both read with that one
\* fragment before the marker, and the other call's fragment is nowhere in it.
C18_LostUpdate ==
    BothReadFirst
      => /\ ret.err = "none"
         /\ Len(hist) = 3
         /\ \E kept, lost \in Writers :
               /\ kept # lost
               /\ file = AppendedOnce(Constructed, procs[kept].content)
               /\ StrCount(file, procs[kept].content) = 1
               /\ procs[lost].content # procs[kept].content
                    => StrCount(file, procs[lost].content) = 0

\* both calls have returned, w1 appending "A" and w2 appending "B"; the
\* document holds "B" and not "A", and has its one marker
C18_Witness ==
    /\ BothReadFirst
    /\ procs["w1"].content = TextA
    /\ procs["w2"].content = TextB
    /\ hist = <<hist[1], TextA, TextB>>
    /\ StrCount(file, TextA) = 0
    /\ StrCount(file, TextB) = 1
    /\ MarkerCount(file) = 1

-----------------------------------------------------------------------------
(* Properties of the constructor (Spec) *)

\* C19: after a constructor call that failed, at whichever step, the file does
\* not hold a one-marker document, whether or not it held text before the call.
C19_FailedConstructionUnusable ==
    (ret.op = "__init__" /\ ret.err # "none") => MarkerCount(file) # 1

\* C20: a constructor call that returns normally leaves the new skeleton with
\* the new banner before its marker and nothing else, whatever the path held:
\* no fragment appended to the earlier report is in the file.
C20_CreateOrTruncate ==
    [][(ret'.op = "__init__" /\ ret'.err = "none")
         => /\ \E in \in ConstructInputs :
                 file' = Spliced(Template(in.title, in.author, in.css, in.js),
                                 ShowReportInfo(in.title, in.author, in.data_source,
                                                in.objective))
            /\ file' = Spliced(template', hist'[1])
            /\ Len(hist') = 1
            /\ \A content \in {TextA, TextB} : StrCount(file', content) = 0]_vars

\* the constructor has returned normally on a path that held a report with
\* appended fragments; the file is the new skeleton and banner
C20_Witness ==
    /\ found = "report"
    /\ ret.op = "__init__"
    /\ ret.err = "none"
    /\ file = AppendedOnce(template, hist[1])
    /\ Len(hist) = 1
    /\ StrCount(file, TextA) = 0

-----------------------------------------------------------------------------
(* The pair list of pairplot *)

C22_MaxPlotsLimitsPairs ==
    (ret.op = "pairplot" /\ inp.max_plots.given) =>
        LET c == PairSelect(inp.df, inp.include_cols, inp.exclude_cols)
            n == Len(c)
            all_pairs == PairCharts(PairCombos(c))
        IN  figs.charts = SubSeq(all_pairs, 1, Min(inp.max_plots.n, n * n))

-----------------------------------------------------------------------------
(* The layout of the Altair grids *)

RECURSIVE Concat(_)
Concat(rows) == IF rows = <<>> THEN <<>> ELSE Head(rows) \o Concat(Tail(rows))

AllAltairOps == AltairOps \cup {"pairplot"}

\* C23: an Altair grid builder called with columns_per_row c >= 1 on n >= 0
\* charts lays them out in ceil(n / c) rows whose concatenation is the chart
\* sequence in order; every row but the last holds exactly c charts and the
\* last row holds between 1 and c.
C23_GridPartition ==
    (ret.op \in AllAltairOps) =>
        LET c == ret.args[1]
            n == Len(figs.charts)
            rows == figs.rows
        IN  /\ c >= 1
            /\ Len(rows) * c >= n
            /\ (Len(rows) - 1) * c < n \/ (n = 0 /\ rows = <<>>)
            /\ Concat(rows) = figs.charts
            /\ \A r \in 1..Len(rows) :
                   IF r < Len(rows) THEN Len(rows[r]) = c
                   ELSE Len(rows[r]) \in 1..c

\* 25 scatter plots laid out two to a row: twelve full rows and a last row of one
C23_Witness ==
    /\ ret.op = "pairplot"
    /\ ret.args[1] = 2
    /\ Len(figs.charts) = 25
    /\ Len(figs.rows) = 13
    /\ Len(figs.rows[13]) = 1

-----------------------------------------------------------------------------
(* The two chart families side by side *)

\* C24: for the same table and the same include, exclude and max_plots, the
\* Plotly builder histogram plots the ordered column sequence that the Altair
\* builder histoplot selects, and histoplot plots the sequence that histogram
\* selects; likewise box and boxplot.
C24_OneSelectionPolicy ==
    /\ (ret.op \in {"histogram", "box"}) =>
           Xs(figs.charts) = AltairSelect(inp.df, inp.include_cols,
                                          inp.exclude_cols, inp.max_plots)
    /\ (ret.op \in {"histoplot", "boxplot"}) =>
           Xs(figs.charts) = PlotlySelect(inp.df, "num", inp.include_cols,
                                          inp.exclude_cols, inp.max_plots)

-----------------------------------------------------------------------------
(* add_content on any document *)

\* C25: an add_content call that returns, made on a document with exactly one
\* marker with a fragment that does not contain the marker, leaves the text
\* before the marker and the text after it as they were: the new document is
\* the old prefix, the fragment, one marker and the old suffix, with only line
\* breaks and indentation put around the fragment and the marker.
C25_AppendFrame ==
    [][(/\ ret'.op = "add_content"
        /\ ret'.err = "none"
        /\ MarkerCount(file) = 1
        /\ MarkerCount(ret'.args[1]) = 0)
         => LET k == FindFrom(file, 1, Marker)
                frag == ret'.args[1]
                m == k + Len(frag) + 2
            IN  /\ SubSeq(file', 1, k - 1) = SubSeq(file, 1, k - 1)
                /\ SubSeq(file', k, m - 1) = <<"w">> \o frag \o <<"w">>
                /\ SubSeq(file', m, m + 1) = Marker
                /\ SubSeq(file', m + 2, Len(file'))
                      = <<"w">> \o SubSeq(file, k + 2, Len(file))
                /\ Len(file') = Len(file) + Len(frag) + 3
                /\ MarkerCount(file') = 1]_vars

\* two marker-free fragments appended one after the other to a one-marker
\* document: the second append left the first fragment and everything around it
\* in place
C25_Witness ==
    /\ ret.op = "add_content"
    /\ ret.err = "none"
    /\ obj
    /\ Len(hist) = 3
    /\ hist[2] = TextA
    /\ hist[3] = TextB
    /\ MarkerCount(Constructed) = 1
    /\ file = AppendedOnce(AppendedOnce(Constructed, TextA), TextB)

\* C26: add_content on a document with k >= 0 markers and a fragment with m >= 0
\* markers raises nothing of its own (it returns whenever the environment does
\* not fail) and leaves k * (1 + m) markers, the fragment inserted once per old
\* marker; on a document without a marker it leaves the file as it is, so no
\* later append brings a marker back.
C26_MarkerCountLaw ==
    [][(ret'.op = "add_content")
         => LET k == MarkerCount(file)
                frag == ret'.args[1]
                m == MarkerCount(frag)
            IN  /\ (env = "reliable") => (ret'.err = "none")
                /\ (ret'.err = "none") =>
                       /\ MarkerCount(file') = k * (1 + m)
                       /\ StrCount(file', Wrapped(frag)) >= k
                       /\ Len(file') = Len(file) + k * (Len(frag) + 3)
                /\ (k = 0 /\ ret'.err = "none") => (file' = file)
                /\ (k = 0) => (MarkerCount(file') = 0)]_vars

\* a marker-bearing fragment appended to a two-marker document: four markers
C26_Witness ==
    /\ ret.op = "add_content"
    /\ ret.err = "none"
    /\ Len(hist) = 3
    /\ MarkerCount(Spliced(Constructed, hist[2])) = 2
    /\ MarkerCount(hist[3]) = 1
    /\ file = Spliced(Spliced(Constructed, hist[2]), hist[3])
    /\ MarkerCount(file) = 4

-----------------------------------------------------------------------------
(* Overlapping writers and the marker *)

\* no add_content call is between its read and the end of its write
Quiescent == \A writer \in Writers : procs[writer].pc = "idle"

\* C27: with overlapping add_content calls appending marker-free fragments, the
\* document the calls leave behind holds exactly one marker, whichever way their
\* reads, truncating opens and writes interleave.
C27_MarkerUnderOverlap == Quiescent => MarkerCount(file) = 1

-----------------------------------------------------------------------------
(* The subplot grids *)

SubplotOps == {"histogram_subplot", "violin_subplot"}

\* C28: histogram_subplot and violin_subplot called on a table with n >= 1
\* numeric columns and max_cols_per_row >= 1 make a grid of ceil(n /
\* max_cols_per_row) rows and min(n, max_cols_per_row) columns and place the
\* i-th column (0-based) at row i div cols + 1, column i mod cols + 1; every
\* placement lies within the grid and no two columns share a cell.
C28_SubplotPlacement ==
    LET numeric_cols == KindColumns(inp.df, "num")
        n == Len(numeric_cols)
    IN  (ret.op \in SubplotOps /\ n >= 1 /\ ret.args[1] >= 1) =>
           LET m == ret.args[1]
               rows == figs.grid.rows
               cols == figs.grid.cols
               placed == figs.charts
           IN  /\ ret.err = "none"
               /\ rows * m >= n /\ (rows - 1) * m < n
               /\ cols = IF n < m THEN n ELSE m
               /\ Len(placed) = n
               /\ \A i \in 0..(n - 1) :
                      /\ numeric_cols[i + 1] \in {placed[i + 1].trace.x,
                                                  placed[i + 1].trace.y}
                      /\ placed[i + 1].row = (i \div cols) + 1
                      /\ placed[i + 1].col = (i % cols) + 1
                      /\ placed[i + 1].row \in 1..rows
                      /\ placed[i + 1].col \in 1..cols
               /\ \A i, j \in 1..n :
                      (placed[i].row = placed[j].row /\ placed[i].col = placed[j].col)
                        => i = j

\* five numeric columns two to a row: a grid of three rows and two columns, the
\* fifth column alone in the last row
C28_Witness ==
    /\ ret.op = "violin_subplot"
    /\ ret.err = "none"
    /\ ret.args[1] = 2
    /\ figs.grid.rows = 3
    /\ figs.grid.cols = 2
    /\ Len(figs.charts) = 5
    /\ figs.charts[5].trace.y = "n5"
    /\ figs.charts[5].row = 3
    /\ figs.charts[5].col = 1
====
